---------------------------- MODULE Spec2Model ----------------------------
(***************************************************************************)
(* Model of the two scripts of outlook2google:                             *)
(*   scripts/ms_events_export_json.py  (the fetcher: page walk, event      *)
(*                                      normalisation, export document)    *)
(*   scripts/extract_meeting_urls.py   (the projector: grouping, meeting   *)
(*                                      URL resolution, per-owner CSV)     *)
(* Python dicts are functions whose DOMAIN is the set of keys present, so  *)
(* that a missing key is a key outside the DOMAIN.  Python text that the   *)
(* code inspects character by character (locations, owner identities) is  *)
(* a tuple of one-character strings.                                       *)
(***************************************************************************)
EXTENDS Integers, Sequences, FiniteSets, TLC

VARIABLES
    pc,               \* position of the running script
    \* ---- fetcher (ms_events_export_json.py)
    chainLen,         \* number of pages the remote service holds for the owner
    debug,            \* args.debug
    url,              \* get_ms_events: page to request next, None when no link
    events,           \* get_ms_events: the accumulator
    served,           \* the pages the service has answered with, in order
    fetchCalls,       \* number of requests.get calls made
    failedAt,         \* page on which a fetch failed, 0 if none did
    failKind,         \* how it failed
    ms_events,        \* export_user_events: what get_ms_events returned
    exported_events,  \* export_user_events: its return value
    log,              \* lines printed
    document,         \* the export document written by main
    \* ---- normaliser applied to one event (extract_event_data)
    raw,              \* the RawEvent
    result,           \* outcome of extract_event_data(raw, user)
    \* ---- projector (extract_meeting_urls.py)
    docExists,        \* os.path.exists(args.input)
    records,          \* data["events"] of the input document
    user_events,      \* the grouping dict: keys in insertion order + buckets
    todo,             \* owners whose file is still to be written
    files,            \* the output directory: file name -> rows
    opened,           \* file names opened for writing, one entry per open()
    exit_code,        \* exit status of the process
    printed,          \* lines printed by the projector
    preexisting,      \* the output directory before the run
    \* ---- row projection applied to one record
    rec,              \* the record
    row               \* the dict handed to writer.writerow

vars == <<pc, chainLen, debug, url, events, served, fetchCalls, failedAt, failKind,
          ms_events, exported_events, log, document, raw, result, docExists,
          records, user_events, todo, files, opened, exit_code, printed,
          preexisting, rec, row>>

fetchVars == <<chainLen, debug, url, events, served, fetchCalls, failedAt, failKind,
               ms_events, exported_events, log, document>>
normVars == <<raw, result>>
projVars == <<docExists, records, user_events, todo, files, opened, exit_code,
              printed, preexisting>>
rowVars == <<rec, row>>

----------------------------------------------------------------------------
(* Bounds of the model *)
\* pages the remote service holds for one owner
MaxPages == 3
\* events the remote service holds for one owner, over all pages
MaxEvents == 3

----------------------------------------------------------------------------
(* Python helpers *)

None == 0
EmptyDict == <<>>

\* dict.get(key, default)
Get(d, k, dflt) == IF k \in DOMAIN d THEN d[k] ELSE dflt

SeqsUpTo(S, n) == UNION {[1..k -> S] : k \in 0..n}

RECURSIVE Flatten(_)
Flatten(ss) == IF ss = <<>> THEN <<>> ELSE Head(ss) \o Flatten(Tail(ss))

Returned(v) == [raised |-> FALSE, value |-> v]
Raised(e) == [raised |-> TRUE, exc |-> e]

----------------------------------------------------------------------------
(* The fetcher *)

User == "theo@example.com"

Att(addr) == [emailAddress |-> [address |-> addr, name |-> "N"],
              status |-> [response |-> "accepted"]]

\* an event of the remote service with every field present
FullEvent(id, cancelled) ==
    [id |-> id, subject |-> "Standup", bodyPreview |-> "Daily",
     start |-> [dateTime |-> "2024-01-01T09:00", timeZone |-> "CET"],
     end |-> [dateTime |-> "2024-01-01T09:30", timeZone |-> "CET"],
     onlineMeeting |-> [joinUrl |-> "https://teams.microsoft.com/x"],
     attendees |-> <<Att("a@x.com"), Att("b@x.com")>>,
     isCancelled |-> cancelled,
     createdDateTime |-> "2023-12-01", lastModifiedDateTime |-> "2023-12-02",
     location |-> [displayName |-> "Room 4B"]]

EvLive == FullEvent("e1", FALSE)
EvCancelled == FullEvent("e2", TRUE)
\* an event without a cancellation flag and with an attendee that has no
\* emailAddress object
EvSparse == [id |-> "e3", attendees |-> <<[type |-> "required"]>>]
\* an event whose attendee has an emailAddress object without an address
EvNoAddress == [id |-> "e4", isCancelled |-> FALSE,
                attendees |-> <<[emailAddress |-> [name |-> "Room"]]>>]

EventPool == {EvLive, EvCancelled, EvSparse, EvNoAddress}

\* what the service may put under "value" on one page
PageValues == SeqsUpTo(EventPool, MaxEvents)

\* a page object: "value" may be missing, the continuation link is present
\* exactly when another page follows
Page(hasValue, value, next) ==
    LET base == IF next = None THEN EmptyDict ELSE [nextLink |-> next]
    IN IF hasValue THEN [k \in (DOMAIN base) \cup {"value"} |->
                             IF k = "value" THEN value ELSE base[k]]
                   ELSE base

\* the JSON body of an error response (a 4xx/5xx answer): it parses, and holds
\* neither "value" nor a continuation link
ErrorBody == [error |-> "TooManyRequests"]

\* the accumulator assigned (events = ...) where the code extends it
ExtendEvents_Overwrite(acc, data) == Get(data, "value", <<>>)

\* line 97: events.extend(data.get("value", []))
ExtendEvents(acc, data) == acc \o Get(data, "value", <<>>)

\* line 98: url = data.get("@odata.nextLink")
NextUrl(data) == Get(data, "nextLink", None)


\* lines 122-129: the attendee loop; an entry without "emailAddress" is
\* skipped, attendee["emailAddress"]["address"] is an unguarded subscript
RECURSIVE extract_attendees(_)
extract_attendees(atts) ==
    IF atts = <<>> THEN Returned(<<>>)
    ELSE LET a == Head(atts) IN
         IF "emailAddress" \notin DOMAIN a THEN extract_attendees(Tail(atts))
         ELSE IF "address" \notin DOMAIN a.emailAddress THEN Raised("KeyError")
         ELSE LET rest == extract_attendees(Tail(atts)) IN
              IF rest.raised THEN rest
              ELSE Returned(<<[email |-> a.emailAddress.address,
                               name |-> Get(a.emailAddress, "name", ""),
                               response |-> Get(Get(a, "status", EmptyDict),
                                                "response", "none")]>>
                            \o rest.value)

\* lines 116-119
meeting_url_of(online_meeting) ==
    IF online_meeting # EmptyDict /\ Get(online_meeting, "joinUrl", "") # ""
    THEN online_meeting.joinUrl ELSE ""

\* lines 101-154
extract_event_data(event, user_email) ==
    LET online_meeting == Get(event, "onlineMeeting", EmptyDict)
        attendees == extract_attendees(Get(event, "attendees", <<>>))
    IN IF attendees.raised THEN attendees
       ELSE Returned(
         [user_email |-> user_email,
          event_id |-> Get(event, "id", ""),
          event_name |-> Get(event, "subject", "No Title"),
          event_description |-> Get(event, "bodyPreview", ""),
          start_date |-> Get(Get(event, "start", EmptyDict), "dateTime", ""),
          end_date |-> Get(Get(event, "end", EmptyDict), "dateTime", ""),
          timezone |-> Get(Get(event, "start", EmptyDict), "timeZone", "UTC"),
          meeting_url |-> meeting_url_of(online_meeting),
          attendees |-> attendees.value,
          location |-> Get(Get(event, "location", EmptyDict), "displayName", ""),
          is_cancelled |-> Get(event, "isCancelled", FALSE),
          created_date |-> Get(event, "createdDateTime", ""),
          modified_date |-> Get(event, "lastModifiedDateTime", ""),
          online_meeting |-> online_meeting,
          raw_event |-> event])

\* line 169: event.get("isCancelled") and not debug
SkipsEvent(event, dbg) == Get(event, "isCancelled", FALSE) /\ ~dbg

\* lines 176-179: the trace lines of one kept event in debug mode
TraceLines(event_data, dbg) ==
    IF ~dbg THEN <<>>
    ELSE <<"trace">> \o (IF event_data.meeting_url # "" THEN <<"trace_url">> ELSE <<>>)

\* lines 164-182: the loop over ms_events; yields the exported list and the
\* lines printed, or the exception that left the loop
RECURSIVE export_loop(_, _, _, _)
export_loop(ms, dbg, acc, out) ==
    IF ms = <<>> THEN Returned([exported |-> acc, printed |-> out])
    ELSE IF SkipsEvent(Head(ms), dbg) THEN export_loop(Tail(ms), dbg, acc, out)
    ELSE LET r == extract_event_data(Head(ms), User) IN
         IF r.raised THEN r
         ELSE export_loop(Tail(ms), dbg, Append(acc, r.value),
                          out \o TraceLines(r.value, dbg))

\* a handler for the transport's errors alone (except requests.RequestException)
Catches_RequestErrorsOnly(exc) == exc = "ConnectionError"

\* line 184: except Exception
Catches(exc) == exc \in {"ConnectionError", "JSONDecodeError", "KeyError"}

\* lines 184-186, and the traceback when the handler does not apply
Handle(exc) ==
    IF Catches(exc)
    THEN /\ log' = Append(log, "error")
         /\ exported_events' = <<>>
         /\ pc' = "returned"
    ELSE /\ pc' = "crashed"
         /\ UNCHANGED <<log, exported_events>>

\* line 207 up to the first request: main calls export_user_events, which
\* prints and enters get_ms_events
main_export ==
    /\ pc = "main"
    /\ pc' = "fetch"
    /\ url' = 1
    /\ events' = <<>>
    /\ log' = Append(log, "exporting")
    /\ UNCHANGED <<chainLen, debug, served, fetchCalls, failedAt, failKind,
                   ms_events, exported_events, document>>

\* lines 94-98 for one answer `data` of the service
WalkStep(data) ==
    /\ fetchCalls' = fetchCalls + 1
    /\ events' = ExtendEvents(events, data)
    /\ url' = NextUrl(data)

\* one iteration of the while loop: the service answers with a page
get_ms_events_page ==
    /\ pc = "fetch" /\ url # None
    /\ \E hasValue \in BOOLEAN, value \in PageValues :
          /\ hasValue \/ value = <<>>
          /\ Len(events) + Len(value) <= MaxEvents
          /\ LET data == Page(hasValue, value,
                              IF url < chainLen THEN url + 1 ELSE None)
             IN /\ WalkStep(data)
                /\ served' = Append(served, data)
    /\ UNCHANGED <<pc, chainLen, debug, failedAt, failKind, ms_events,
                   exported_events, log, document>>

\* one iteration of the while loop: the request is answered with an error
\* status whose body is JSON; requests.get does not raise on it
get_ms_events_error_body ==
    /\ pc = "fetch" /\ url # None /\ failedAt = 0
    /\ WalkStep(ErrorBody)
    /\ failedAt' = url
    /\ failKind' = "error_body"
    /\ UNCHANGED <<pc, chainLen, debug, served, ms_events, exported_events,
                   log, document>>

\* one iteration of the while loop: requests.get (line 95) or resp.json()
\* (line 96) raises; the exception leaves get_ms_events and reaches the
\* handler of export_user_events
get_ms_events_raises ==
    /\ pc = "fetch" /\ url # None /\ failedAt = 0
    /\ \E exc \in {"ConnectionError", "JSONDecodeError"} :
          /\ fetchCalls' = fetchCalls + 1
          /\ failedAt' = url
          /\ failKind' = exc
          /\ Handle(exc)
    /\ UNCHANGED <<chainLen, debug, url, events, served, ms_events, document>>

\* lines 161-186 after get_ms_events returned: the normalisation loop
export_user_events_loop ==
    /\ pc = "fetch" /\ url = None
    /\ ms_events' = events
    /\ LET r == export_loop(events, debug, <<>>, <<>>) IN
       IF r.raised
       THEN Handle(r.exc)
       ELSE /\ exported_events' = r.value.exported
            /\ log' = log \o <<"found">> \o r.value.printed \o <<"exported">>
            /\ pc' = "returned"
    /\ UNCHANGED <<chainLen, debug, url, events, served, fetchCalls, failedAt,
                   failKind, document>>

\* lines 209-225: main builds and writes the export document
main_write ==
    /\ pc = "returned"
    /\ document' = [export_info |-> [user_email |-> User,
                                     total_events |-> Len(exported_events),
                                     debug_mode |-> debug],
                    events |-> exported_events]
    /\ pc' = "written"
    /\ UNCHANGED <<chainLen, debug, url, events, served, fetchCalls, failedAt,
                   failKind, ms_events, exported_events, log>>

NoDocument == EmptyDict

IdleFetch ==
    /\ chainLen = 0 /\ debug = FALSE /\ url = None /\ events = <<>>
    /\ served = <<>> /\ fetchCalls = 0 /\ failedAt = 0 /\ failKind = "none"
    /\ ms_events = <<>> /\ exported_events = <<>> /\ log = <<>>
    /\ document = NoDocument
IdleNorm == raw = EmptyDict /\ result = EmptyDict
IdleProj ==
    /\ docExists = FALSE /\ records = <<>>
    /\ user_events = [keys |-> <<>>, buckets |-> EmptyDict]
    /\ todo = <<>> /\ files = EmptyDict /\ opened = <<>> /\ exit_code = 0
    /\ printed = <<>> /\ preexisting = EmptyDict
IdleRow == rec = EmptyDict /\ row = EmptyDict

\* the fetcher after authentication, before the export call
InitFetch ==
    /\ pc = "main"
    /\ chainLen \in 1..MaxPages
    /\ debug \in BOOLEAN
    /\ url = None /\ events = <<>> /\ served = <<>> /\ fetchCalls = 0
    /\ failedAt = 0 /\ failKind = "none"
    /\ ms_events = <<>> /\ exported_events = <<>> /\ log = <<>>
    /\ document = NoDocument
    /\ IdleNorm /\ IdleProj /\ IdleRow

NextFetch ==
    \/ main_export /\ UNCHANGED <<normVars, projVars, rowVars>>
    \/ get_ms_events_page /\ UNCHANGED <<normVars, projVars, rowVars>>
    \/ get_ms_events_error_body /\ UNCHANGED <<normVars, projVars, rowVars>>
    \/ get_ms_events_raises /\ UNCHANGED <<normVars, projVars, rowVars>>
    \/ export_user_events_loop /\ UNCHANGED <<normVars, projVars, rowVars>>
    \/ main_write /\ UNCHANGED <<normVars, projVars, rowVars>>

SpecFetch == InitFetch /\ [][NextFetch]_vars

----------------------------------------------------------------------------
(* Claims about the fetcher, checked under SpecFetch *)

\* the events of one page, in page order
PageEvents(p) == IF "value" \in DOMAIN p THEN p.value ELSE <<>>

\* the events of the pages p[1..n], page after page
RECURSIVE ServerOrder(_, _)
ServerOrder(p, n) ==
    IF n = 0 THEN <<>> ELSE ServerOrder(p, n - 1) \o PageEvents(p[n])

\* get_ms_events has returned and no fetch failed
WalkReturned == pc \in {"fetch", "returned", "written"} /\ url = None /\ fetchCalls > 0

\* C1: over a chain of n >= 1 pages of which exactly the first n-1 carry a
\* continuation link, get_ms_events has made fewer than n fetch calls while it
\* is still walking, never makes more than n, and when it returns it has made
\* exactly n and its result is the concatenation of the pages' event lists in
\* page order, then in-page order.
C1_WalkConcatenatesPages ==
    failedAt = 0 =>
        /\ fetchCalls <= chainLen
        /\ (pc = "fetch" /\ url # None) => fetchCalls < chainLen
        /\ \A i \in 1..Len(served) : ("nextLink" \in DOMAIN served[i]) <=> (i < chainLen)
        /\ WalkReturned =>
              /\ fetchCalls = chainLen
              /\ Len(served) = chainLen
              /\ events = ServerOrder(served, chainLen)

\* a walk of three pages, the middle one holding two events, has returned
C1_Witness ==
    /\ WalkReturned /\ failedAt = 0 /\ chainLen = 3
    /\ PageEvents(served[1]) = <<EvLive>>
    /\ PageEvents(served[2]) = <<EvCancelled, EvSparse>>
    /\ PageEvents(served[3]) = <<>>

\* what normalisation makes of one event; an event it cannot normalise stands
\* for itself
Normalized(e) ==
    LET r == extract_event_data(e, User)
    IN IF r.raised THEN [not_normalized |-> e] ELSE r.value

NotCancelled(e) == ~(("isCancelled" \in DOMAIN e) /\ e.isCancelled = TRUE)

\* the normalised events of evs, without the cancelled ones unless dbg
ExpectedExport(evs, dbg) ==
    LET kept == IF dbg THEN evs ELSE SelectSeq(evs, NotCancelled)
    IN [i \in 1..Len(kept) |-> Normalized(kept[i])]

InLog(line) == \E i \in 1..Len(log) : log[i] = line

\* C2: when the fetch of page k >= 2 fails, export_user_events returns the
\* normalised events of pages 1..k-1 (after cancellation filtering) and the
\* failure is logged.
C2_PartialResultOnFetchFailure ==
    (pc \in {"returned", "written"} /\ failedAt >= 2) =>
        /\ exported_events = ExpectedExport(ServerOrder(served, failedAt - 1), debug)
        /\ InLog("error")

\* C3: no failure of a page fetch or of the normalisation leaves
\* export_user_events as an exception: the run is never aborted, it can always
\* take its next step until the document is written, and the document holds
\* the list export_user_events returned.
C3_ExportNeverRaisesOut ==
    /\ pc # "crashed"
    /\ (pc = "written") \/ (ENABLED NextFetch)
    /\ pc = "written" =>
          /\ document # NoDocument
          /\ document.events = exported_events
          /\ document.export_info.total_events = Len(exported_events)

\* the normalisation failed on the second event, and the document was written
C3_Witness ==
    /\ pc = "written"
    /\ ms_events = <<EvLive, EvNoAddress>>
    /\ InLog("error")
    /\ document.events = <<>>

\* a fetch failed by an exception, and the document was written
C3_WitnessFetch ==
    pc = "written" /\ failKind = "JSONDecodeError" /\ failedAt = 2

\* C4: when no fetch failed, export_user_events returns the normalised events
\* in fetched order, all of them with debug set, those not cancelled without,
\* and without debug no emitted record has is_cancelled true.
C4_CancellationFilter ==
    (pc \in {"returned", "written"} /\ failedAt = 0) =>
        /\ exported_events = ExpectedExport(ms_events, debug)
        /\ ~debug => \A i \in 1..Len(exported_events) :
                        exported_events[i].is_cancelled # TRUE

\* C4 holds of the runs in which every event that is to be kept can be
\* normalised
C4_FilterWhenNormalizable ==
    (/\ pc \in {"returned", "written"} /\ failedAt = 0
     /\ \A i \in 1..Len(ms_events) :
           (debug \/ NotCancelled(ms_events[i])) =>
               ~extract_event_data(ms_events[i], User).raised)
    => C4_CancellationFilter

----------------------------------------------------------------------------
(* extract_event_data applied to one event *)

\* how many optional fields are taken out of the full event
MaxMissing == 2

SetsUpTo(S, n) ==
    LET RECURSIVE Build(_)
        Build(k) == IF k = 0 THEN {{}}
                    ELSE LET prev == Build(k - 1)
                         IN prev \cup {s \cup {x} : s \in prev, x \in S}
    IN Build(n)

\* the optional fields of an event, by their path
TopFields == {"subject", "bodyPreview", "start", "end", "onlineMeeting", "attendees",
              "id", "isCancelled", "createdDateTime", "lastModifiedDateTime",
              "location"}
NestedFields == {"start.dateTime", "start.timeZone", "end.dateTime",
                 "onlineMeeting.joinUrl", "location.displayName"}
AttendeeFields == {"attendee.emailAddress", "attendee.status",
                   "attendee.emailAddress.address", "attendee.emailAddress.name",
                   "attendee.status.response"}
OptionalFields == TopFields \cup NestedFields \cup AttendeeFields

\* the dict d without the keys k for which the path prefix.k is in missing
Sub(d, prefix, missing) ==
    [k \in {x \in DOMAIN d : (prefix \o x) \notin missing} |-> d[k]]

\* the first attendee of the full event without the fields in missing
SparseAttendee(a, missing) ==
    LET top == Sub(a, "attendee.", missing)
    IN [k \in DOMAIN top |-> Sub(top[k], "attendee." \o k \o ".", missing)]

\* the full event without the fields in missing
SparseEvent(missing) ==
    LET full == FullEvent("e1", FALSE)
        top == Sub(full, "", missing)
    IN [k \in DOMAIN top |->
          IF k \in {"start", "end", "onlineMeeting", "location"}
          THEN Sub(top[k], k \o ".", missing)
          ELSE IF k = "attendees"
          THEN <<SparseAttendee(top[k][1], missing), top[k][2]>>
          ELSE top[k]]

RawEvents == {SparseEvent(m) : m \in SetsUpTo(OptionalFields, MaxMissing)}

InitNorm ==
    /\ pc = "normalize"
    /\ raw \in RawEvents
    /\ result = EmptyDict
    /\ IdleFetch /\ IdleProj /\ IdleRow

\* line 172: event_data = extract_event_data(event, user_email)
normalize ==
    /\ pc = "normalize"
    /\ result' = extract_event_data(raw, User)
    /\ pc' = "normalized"
    /\ UNCHANGED <<raw, fetchVars, projVars, rowVars>>

NextNorm == normalize

SpecNorm == InitNorm /\ [][NextNorm]_vars

\* the value the documentation gives a field that is missing
Documented(d, k, dflt) == IF k \in DOMAIN d THEN d[k] ELSE dflt
Inner(d, k) == IF k \in DOMAIN d THEN d[k] ELSE EmptyDict

HasEmail(a) == "emailAddress" \in DOMAIN a /\ "address" \in DOMAIN a.emailAddress

\* the attendees the documentation keeps: those exposing an email address
DocumentedAttendees(atts) ==
    LET kept == SelectSeq(atts, HasEmail)
    IN [i \in 1..Len(kept) |->
          [email |-> kept[i].emailAddress.address,
           name |-> Documented(kept[i].emailAddress, "name", ""),
           response |-> Documented(Inner(kept[i], "status"), "response", "none")]]

\* C5: for an event that misses optional fields, extract_event_data does not
\* raise and returns the record in which every missing field has its
\* documented default: "No Title", "UTC", "none", false, the empty string, and
\* an attendee without an email address left out.
C5_AbsenceTolerance ==
    pc = "normalized" =>
        /\ ~result.raised
        /\ result.value.event_name = Documented(raw, "subject", "No Title")
        /\ result.value.event_description = Documented(raw, "bodyPreview", "")
        /\ result.value.start_date = Documented(Inner(raw, "start"), "dateTime", "")
        /\ result.value.end_date = Documented(Inner(raw, "end"), "dateTime", "")
        /\ result.value.timezone = Documented(Inner(raw, "start"), "timeZone", "UTC")
        /\ result.value.meeting_url =
              Documented(Inner(raw, "onlineMeeting"), "joinUrl", "")
        /\ result.value.attendees = DocumentedAttendees(Documented(raw, "attendees", <<>>))
        /\ result.value.event_id = Documented(raw, "id", "")
        /\ result.value.is_cancelled = Documented(raw, "isCancelled", FALSE)
        /\ result.value.created_date = Documented(raw, "createdDateTime", "")
        /\ result.value.modified_date = Documented(raw, "lastModifiedDateTime", "")
        /\ result.value.location = Documented(Inner(raw, "location"), "displayName", "")
        /\ result.value.raw_event = raw

\* C5 holds of the events whose attendees expose an address whenever they
\* expose an emailAddress object
C5_ToleranceWhenAddressed ==
    (\A i \in 1..Len(Documented(raw, "attendees", <<>>)) :
        "emailAddress" \in DOMAIN raw.attendees[i] => HasEmail(raw.attendees[i]))
    => C5_AbsenceTolerance

----------------------------------------------------------------------------
(* The projector *)

\* records of the input document
MaxRecords == 3

\* text as the tuple of its characters
AtSign == "@"
Unknown == <<"u", "n", "k", "n", "o", "w", "n">>
Suffix == <<"_", "e", "v", "e", "n", "t", "s", ".", "c", "s", "v">>

\* owner identities: two with the same part before "@", one without "@"
Owners == {<<"a", "@", "x">>, <<"a", "@", "y">>, <<"b", "@", "x">>, <<"b">>}

\* line 37: user_email.split("@")[0], the text before the first "@", the whole
\* text when it holds none
RECURSIVE BeforeFirstAt(_)
BeforeFirstAt(s) ==
    IF s = <<>> \/ Head(s) = AtSign THEN <<>>
    ELSE <<Head(s)>> \o BeforeFirstAt(Tail(s))

\* line 38: the file the owner's rows go to (in output_dir)
csv_filename(user_email) == BeforeFirstAt(user_email) \o Suffix

\* str.lower() on the letters the model's texts hold
UpperCase == [H |-> "h", T |-> "t", P |-> "p", S |-> "s", Z |-> "z", O |-> "o",
              M |-> "m", U |-> "u", R |-> "r", E |-> "e", A |-> "a", I |-> "i",
              C |-> "c", F |-> "f"]
LowerChar(c) == IF c \in DOMAIN UpperCase THEN UpperCase[c] ELSE c
Lower(s) == [i \in 1..Len(s) |-> LowerChar(s[i])]

\* Python's `needle in text`
In(needle, text) ==
    \E i \in 0..(Len(text) - Len(needle)) : SubSeq(text, i + 1, i + Len(needle)) = needle

Http == <<"h", "t", "t", "p">>
ZoomUs == <<"z", "o", "o", "m", ".", "u", "s">>
TeamsHost == <<"t", "e", "a", "m", "s", ".", "m", "i", "c", "r", "o", "s", "o", "f", "t", ".", "c", "o", "m">>

\* a resolver that trusts the dedicated field before it looks at the location
resolve_meeting_url_FieldFirst(event) ==
    LET location == Get(event, "location", <<>>)
        field == Get(event, "meeting_url", <<>>)
    IN IF field # <<>> THEN field
       ELSE IF location # <<>> /\ (In(Http, Lower(location)) \/ In(ZoomUs, Lower(location))
                                   \/ In(TeamsHost, Lower(location)))
       THEN location ELSE <<>>

\* lines 60-69
resolve_meeting_url(event) ==
    LET location == Get(event, "location", <<>>)
        meeting_url == IF location # <<>> /\ (\/ In(Http, Lower(location))
                                              \/ In(ZoomUs, Lower(location))
                                              \/ In(TeamsHost, Lower(location)))
                       THEN location ELSE <<>>
    IN IF meeting_url = <<>> THEN Get(event, "meeting_url", <<>>) ELSE meeting_url

\* str.join
RECURSIVE Join(_, _)
Join(sep, xs) ==
    IF xs = <<>> THEN ""
    ELSE IF Len(xs) = 1 THEN xs[1]
    ELSE xs[1] \o sep \o Join(sep, Tail(xs))

\* line 73: [attendee.get("email", "") for attendee in attendees if attendee.get("email")]
RECURSIVE EmailsOf(_)
EmailsOf(attendees) ==
    IF attendees = <<>> THEN <<>>
    ELSE (IF Get(Head(attendees), "email", "") # ""
          THEN <<Get(Head(attendees), "email", "")>> ELSE <<>>)
         \o EmailsOf(Tail(attendees))

\* a count taken after the filter on emails
attendees_count_Filtered(attendees) == Len(EmailsOf(attendees))

\* line 74: len(attendees) if attendees else 0
attendees_count(attendees) == IF attendees # <<>> THEN Len(attendees) ELSE 0

\* lines 58-88: the row written for one record
csv_row(event) ==
    LET attendees == Get(event, "attendees", <<>>)
    IN [event_id |-> Get(event, "event_id", ""),
        event_name |-> Get(event, "event_name", ""),
        event_description |-> Get(event, "event_description", ""),
        start_date |-> Get(event, "start_date", ""),
        end_date |-> Get(event, "end_date", ""),
        timezone |-> Get(event, "timezone", ""),
        meeting_url |-> resolve_meeting_url(event),
        location |-> Get(event, "location", <<>>),
        attendees_emails |-> Join("; ", EmailsOf(attendees)),
        attendees_count |-> attendees_count(attendees)]

RECURSIVE csv_rows(_)
csv_rows(evs) == IF evs = <<>> THEN <<>> ELSE <<csv_row(Head(evs))>> \o csv_rows(Tail(evs))

\* a grouping that assigns the bucket where the code appends to it
group_step_Overwrite(ue, event) ==
    LET user_email == Get(event, "user_email", Unknown)
    IN [keys |-> IF \E i \in 1..Len(ue.keys) : ue.keys[i] = user_email
                 THEN ue.keys ELSE Append(ue.keys, user_email),
        buckets |-> [k \in (DOMAIN ue.buckets) \cup {user_email} |->
                        IF k = user_email THEN <<event>> ELSE ue.buckets[k]]]

\* lines 27-30: one record enters the grouping dict
group_step(ue, event) ==
    LET user_email == Get(event, "user_email", Unknown)
    IN IF \E i \in 1..Len(ue.keys) : ue.keys[i] = user_email
       THEN [keys |-> ue.keys,
             buckets |-> [ue.buckets EXCEPT ![user_email] = Append(@, event)]]
       ELSE [keys |-> Append(ue.keys, user_email),
             buckets |-> [k \in (DOMAIN ue.buckets) \cup {user_email} |->
                             IF k = user_email THEN <<event>> ELSE ue.buckets[k]]]

\* lines 25-30: the loop over the records
RECURSIVE group(_, _)
group(ue, evs) == IF evs = <<>> THEN ue ELSE group(group_step(ue, Head(evs)), Tail(evs))

NoGroups == [keys |-> <<>>, buckets |-> EmptyDict]

\* a record of the document: the owner may be missing
Record(owner, hasOwner, id) ==
    LET body == [event_id |-> id, event_name |-> "Standup",
                 location |-> <<"R", "o", "o", "m">>,
                 meeting_url |-> <<"h", "t", "t", "p", "s", ":", "/", "/", "t", "e", "a", "m", "s", ".", "m", "i", "c", "r", "o", "s", "o", "f", "t", ".", "c", "o", "m", "/", "x">>,
                 attendees |-> <<[email |-> "a@x.com"], [name |-> "B"]>>]
    IN IF hasOwner
       THEN [k \in (DOMAIN body) \cup {"user_email"} |->
                IF k = "user_email" THEN owner ELSE body[k]]
       ELSE body

RecordPool ==
    {Record(o, TRUE, id) : o \in Owners, id \in {"e1", "e2"}}
    \cup {Record(Unknown, FALSE, id) : id \in {"e1", "e2"}}

\* a file left in the output directory by an earlier run
StaleFile == [name \in {csv_filename(<<"a", "@", "x">>)} |-> <<"stale">>]

\* a check that lets every path through
input_exists_Always == TRUE

\* line 105: os.path.exists(args.input)
input_exists == docExists

InitProj ==
    /\ pc = "projector"
    /\ docExists \in BOOLEAN
    /\ records \in (IF docExists THEN SeqsUpTo(RecordPool, MaxRecords) ELSE {<<>>})
    /\ preexisting \in {EmptyDict, StaleFile}
    /\ files = preexisting
    /\ user_events = NoGroups
    /\ todo = <<>> /\ opened = <<>> /\ printed = <<>>
    /\ exit_code = 0
    /\ IdleFetch /\ IdleNorm /\ IdleRow

\* lines 105-107: the input is missing; main prints and returns
main_input_missing ==
    /\ pc = "projector"
    /\ ~input_exists
    /\ printed' = Append(printed, "not_found")
    /\ pc' = "exited"
    /\ exit_code' = 0
    /\ UNCHANGED <<docExists, records, user_events, todo, files, opened, preexisting>>

\* lines 110-112 and 16-32: the directory is made, the document is read and
\* its records are grouped; open() of a missing file raises, and the
\* interpreter ends the process with status 1
main_read_and_group ==
    /\ pc = "projector"
    /\ input_exists
    /\ IF docExists
       THEN /\ user_events' = group(NoGroups, records)
            /\ todo' = user_events'.keys
            /\ printed' = printed \o <<"reading", "found", "users">>
            /\ pc' = "writing"
            /\ UNCHANGED exit_code
       ELSE /\ printed' = Append(printed, "reading")
            /\ pc' = "crashed"
            /\ exit_code' = 1
            /\ UNCHANGED <<user_events, todo>>
    /\ UNCHANGED <<docExists, records, files, opened, preexisting>>

\* lines 35-90 for one owner: the file is opened for writing, which empties
\* it, and the owner's rows are written
write_owner_file ==
    /\ pc = "writing" /\ todo # <<>>
    /\ LET user_email == Head(todo)
           name == csv_filename(user_email)
           rows == csv_rows(user_events.buckets[user_email])
       IN /\ files' = [f \in (DOMAIN files) \cup {name} |->
                          IF f = name THEN rows ELSE files[f]]
          /\ opened' = Append(opened, name)
          /\ printed' = printed \o <<"processing", "created">>
    /\ todo' = Tail(todo)
    /\ UNCHANGED <<pc, docExists, records, user_events, exit_code, preexisting>>

\* lines 92-93: every owner is written
finish_projection ==
    /\ pc = "writing" /\ todo = <<>>
    /\ printed' = Append(printed, "complete")
    /\ pc' = "projected"
    /\ UNCHANGED <<docExists, records, user_events, todo, files, opened, exit_code,
                   preexisting>>

NextProj ==
    \/ main_input_missing /\ UNCHANGED <<fetchVars, normVars, rowVars>>
    \/ main_read_and_group /\ UNCHANGED <<fetchVars, normVars, rowVars>>
    \/ write_owner_file /\ UNCHANGED <<fetchVars, normVars, rowVars>>
    \/ finish_projection /\ UNCHANGED <<fetchVars, normVars, rowVars>>

SpecProj == InitProj /\ [][NextProj]_vars

----------------------------------------------------------------------------
(* Claims about the projector, checked under SpecProj *)

\* the owner a record belongs to
OwnerOf(r) == IF "user_email" \in DOMAIN r THEN r.user_email ELSE Unknown

OwnersIn(rs) == {OwnerOf(rs[i]) : i \in 1..Len(rs)}

\* the position of the first record of owner o
FirstSeen(rs, o) == CHOOSE i \in 1..Len(rs) :
                        OwnerOf(rs[i]) = o /\ \A j \in 1..(i - 1) : OwnerOf(rs[j]) # o

\* the records of owner o, in document order
RecordsOf(rs, o) == LET Mine(r) == OwnerOf(r) = o IN SelectSeq(rs, Mine)

Grouped == pc \in {"writing", "projected"}

\* C7: grouping yields a partition of the records: the owners are those of
\* the records, each once, in first-seen order; an owner's bucket is that
\* owner's records in document order; a record without an owner is in the
\* bucket "unknown".
C7_GroupingIsOrderedPartition ==
    Grouped =>
        LET keys == user_events.keys
            buckets == user_events.buckets
        IN /\ {keys[i] : i \in 1..Len(keys)} = OwnersIn(records)
           /\ DOMAIN buckets = OwnersIn(records)
           /\ \A i, j \in 1..Len(keys) :
                 i < j => FirstSeen(records, keys[i]) < FirstSeen(records, keys[j])
           /\ \A o \in DOMAIN buckets : buckets[o] = RecordsOf(records, o)
           /\ \A i \in 1..Len(records) :
                 /\ \E n \in 1..Len(buckets[OwnerOf(records[i])]) :
                       buckets[OwnerOf(records[i])][n] = records[i]
                 /\ "user_email" \notin DOMAIN records[i] =>
                       \E n \in 1..Len(buckets[Unknown]) : buckets[Unknown][n] = records[i]

\* owners b, a, b in that order, then a record without an owner
C7_Witness ==
    /\ Grouped
    /\ Len(records) = 3
    /\ OwnerOf(records[1]) = <<"b", "@", "x">>
    /\ OwnerOf(records[2]) = <<"a", "@", "x">>
    /\ OwnerOf(records[3]) = <<"b", "@", "x">>
    /\ records[1] # records[3]
    /\ user_events.keys = <<<<"b", "@", "x">>, <<"a", "@", "x">>>>

\* a record without an owner has been grouped after another owner's
C7_WitnessUnknown ==
    /\ Grouped
    /\ Len(records) = 2
    /\ "user_email" \notin DOMAIN records[2]
    /\ user_events.keys = <<<<"b">>, Unknown>>

FilesOpened == {opened[i] : i \in 1..Len(opened)}

\* C8: after a projection run there is one output file per distinct owner:
\* as many files were written as the document has owners, and each owner's
\* file holds exactly that owner's rows.
C8_OneFilePerOwner ==
    pc = "projected" =>
        /\ Cardinality(FilesOpened) = Cardinality(OwnersIn(records))
        /\ \A o \in OwnersIn(records) :
              /\ csv_filename(o) \in DOMAIN files
              /\ files[csv_filename(o)] = csv_rows(RecordsOf(records, o))

\* C8 holds of the documents whose owners differ in the part before "@"
C8_OneFilePerLocalPart ==
    (\A o, p \in OwnersIn(records) : BeforeFirstAt(o) = BeforeFirstAt(p) => o = p)
    => C8_OneFilePerOwner

\* C9, as the specification states it: when the document is missing, the run
\* reports the error and ends with a non-zero outcome, has written no file and
\* has not reached the grouping or the CSV-writing step.
C9_MissingInputNonZero ==
    ~docExists =>
        /\ pc \in {"projector", "exited"}
        /\ opened = <<>> /\ files = preexisting /\ user_events = NoGroups
        /\ pc = "exited" =>
              /\ \E i \in 1..Len(printed) : printed[i] = "not_found"
              /\ exit_code # 0

\* C9, amended: when the document is missing, the run reports the error and
\* ends by returning from main, with exit status zero; it has written no file
\* and has not reached the grouping or the CSV-writing step.
C9_MissingInputReported ==
    ~docExists =>
        /\ pc \in {"projector", "exited"}
        /\ opened = <<>> /\ files = preexisting /\ user_events = NoGroups
        /\ pc = "exited" =>
              /\ printed = <<"not_found">>
              /\ exit_code = 0

\* the run over a missing document has ended, beside a file of an earlier run
C9_Witness ==
    ~docExists /\ pc = "exited" /\ preexisting = StaleFile

----------------------------------------------------------------------------
(* The row projection applied to one record *)

\* pieces a location text is made of
MaxPieces == 2
\* attendee entries on a record
MaxAttendees == 2

Pieces == {<<"R", "o", "o", "m", " ">>,
           <<"h", "t", "t", "p">>,
           <<"H", "T", "T", "P", "S">>,
           <<"h", "t", "t">>,
           <<"p">>,
           <<"z", "o", "o", "m", ".", "u", "s">>,
           <<"Z", "O", "O", "M", ".", "U", "S">>,
           <<"T", "e", "a", "m", "s", ".", "M", "i", "c", "r", "o", "s", "o", "f", "t", ".", "c", "o", "m">>}

Locations == {Flatten(ps) : ps \in SeqsUpTo(Pieces, MaxPieces)}

JoinUrl == <<"h", "t", "t", "p", "s", ":", "/", "/", "t", "e", "a", "m", "s", ".", "m", "i", "c", "r", "o", "s", "o", "f", "t", ".", "c", "o", "m", "/", "x">>

\* attendee entries: with an email, with an empty one, without one
AttendeeEntries == {[email |-> "a@x.com", name |-> "A"], [email |-> "b@x.com"],
                    [email |-> "", name |-> "C"], [name |-> "D"]}

\* a stored record with the given fields; hasLocation, hasUrl and hasAttendees
\* say whether the key is present
StoredRecord(hasLocation, location, hasUrl, meeting_url, hasAttendees, attendees) ==
    LET keys == {"event_id"}
                \cup (IF hasLocation THEN {"location"} ELSE {})
                \cup (IF hasUrl THEN {"meeting_url"} ELSE {})
                \cup (IF hasAttendees THEN {"attendees"} ELSE {})
    IN [k \in keys |-> CASE k = "event_id" -> "e1"
                         [] k = "location" -> location
                         [] k = "meeting_url" -> meeting_url
                         [] k = "attendees" -> attendees]

InitRow ==
    /\ pc = "row"
    /\ \E hasLocation \in BOOLEAN, location \in Locations,
          hasUrl \in BOOLEAN, meeting_url \in {<<>>, JoinUrl},
          hasAttendees \in BOOLEAN, attendees \in SeqsUpTo(AttendeeEntries, MaxAttendees) :
          /\ hasLocation \/ location = <<>>
          /\ hasUrl \/ meeting_url = <<>>
          /\ hasAttendees \/ attendees = <<>>
          /\ rec = StoredRecord(hasLocation, location, hasUrl, meeting_url,
                                hasAttendees, attendees)
    /\ row = EmptyDict
    /\ IdleFetch /\ IdleNorm /\ IdleProj

\* lines 58-88 for the record
project_row ==
    /\ pc = "row"
    /\ row' = csv_row(rec)
    /\ pc' = "row_written"
    /\ UNCHANGED <<rec, fetchVars, normVars, projVars>>

NextRow == project_row

SpecRow == InitRow /\ [][NextRow]_vars

\* the two cases of a letter
CaseOf == [h |-> "H", t |-> "T", p |-> "P", z |-> "Z", o |-> "O", m |-> "M",
           u |-> "U", s |-> "S", e |-> "E", a |-> "A", i |-> "I", c |-> "C",
           r |-> "R", f |-> "F"]
SameLetter(c, d) == c = d \/ (d \in DOMAIN CaseOf /\ CaseOf[d] = c)

\* text holds the lower-case word at some position, in whatever case
Mentions(text, word) ==
    \E at \in 1..Len(text) :
        /\ at + Len(word) - 1 <= Len(text)
        /\ \A j \in 1..Len(word) : SameLetter(text[at + j - 1], word[j])

LocationOf(r) == IF "location" \in DOMAIN r THEN r.location ELSE <<>>
LooksLikeLink(text) ==
    /\ text # <<>>
    /\ Mentions(text, Http) \/ Mentions(text, ZoomUs) \/ Mentions(text, TeamsHost)

\* C6: the resolved meeting_url is the location text verbatim when that is
\* non-empty and holds "http", "zoom.us" or "teams.microsoft.com" in whatever
\* case; otherwise the record's meeting_url field when that is non-empty;
\* otherwise the empty text.
C6_UrlPrecedence ==
    pc = "row_written" =>
        /\ LooksLikeLink(LocationOf(rec)) => row.meeting_url = LocationOf(rec)
        /\ (~LooksLikeLink(LocationOf(rec)) /\ "meeting_url" \in DOMAIN rec
              /\ rec.meeting_url # <<>>) => row.meeting_url = rec.meeting_url
        /\ (~LooksLikeLink(LocationOf(rec))
              /\ ("meeting_url" \notin DOMAIN rec \/ rec.meeting_url = <<>>))
           => row.meeting_url = <<>>

\* rule 1 wins over a non-empty field, on an upper-case location
C6_Witness ==
    /\ pc = "row_written"
    /\ LocationOf(rec) = <<"R", "o", "o", "m", " ", "Z", "O", "O", "M", ".", "U", "S">>
    /\ "meeting_url" \in DOMAIN rec /\ rec.meeting_url = JoinUrl
    /\ row.meeting_url = LocationOf(rec)

\* rule 2 applies to a location that only nearly holds a marker
C6_WitnessField ==
    /\ pc = "row_written"
    /\ LocationOf(rec) = <<"h", "t", "t", "R", "o", "o", "m", " ">>
    /\ row.meeting_url = JoinUrl

AttendeesOf(r) == IF "attendees" \in DOMAIN r THEN r.attendees ELSE <<>>
WithEmail(a) == "email" \in DOMAIN a /\ a.email # ""

\* the emails of the entries, from the last entry backwards
RECURSIVE Listed(_, _)
Listed(atts, n) ==
    IF n = 0 THEN ""
    ELSE IF ~WithEmail(atts[n]) THEN Listed(atts, n - 1)
    ELSE IF \E k \in 1..(n - 1) : WithEmail(atts[k])
    THEN Listed(atts, n - 1) \o "; " \o atts[n].email
    ELSE atts[n].email

\* C10: attendees_count is the number of attendee entries on the record;
\* attendees_emails is the emails of the entries that have a non-empty one,
\* in order, joined by "; "; so the count is at least the number of joined
\* emails and exceeds it exactly when an entry has no email.
C10_AttendeeCountIsLiteral ==
    pc = "row_written" =>
        LET atts == AttendeesOf(rec)
            joined == Cardinality({i \in 1..Len(atts) : WithEmail(atts[i])})
        IN /\ row.attendees_count = Len(atts)
           /\ row.attendees_emails = Listed(atts, Len(atts))
           /\ row.attendees_count >= joined
           /\ (row.attendees_count > joined) <=> (\E i \in 1..Len(atts) : ~WithEmail(atts[i]))

\* two entries, the first without an email
C10_Witness ==
    /\ pc = "row_written"
    /\ AttendeesOf(rec) = <<[name |-> "D"], [email |-> "b@x.com"]>>
    /\ row.attendees_count = 2
    /\ row.attendees_emails = "b@x.com"

\* two entries with an email each
C10_WitnessJoined ==
    /\ pc = "row_written"
    /\ row.attendees_emails = "a@x.com; b@x.com"
    /\ row.attendees_count = 2

----------------------------------------------------------------------------
(* The four programs together *)

Init == InitFetch \/ InitNorm \/ InitProj \/ InitRow
Next == NextFetch \/ NextNorm \/ NextProj \/ NextRow
Spec == Init /\ [][Next]_vars

=============================================================================
